---- MODULE Spec2Model ----
(***************************************************************************)
(* Model of src/resolvers/Query/organizationsMemberConnection.ts:          *)
(* the resolver organizationsMemberConnection and its filter builder       *)
(* getInputArg.                                                            *)
(*                                                                         *)
(* JavaScript values are records [t |-> <type tag>, v |-> <payload>].      *)
(* A string is the sequence of its one-character strings, an array of      *)
(* strings is a sequence of such sequences.                                *)
(***************************************************************************)
EXTENDS Integers, Sequences, FiniteSets, TLC

VARIABLES
  pc,              \* position of the resolver: idle, called, awaiting, resumed, done
  args,            \* the resolver's args: where, first, skip, orgId
  context,         \* the resolver's context: apiRootUrl
  inputArg,        \* const inputArg (line 23)
  paginateOptions, \* let paginateOptions (lines 27-46)
  storeCalls,      \* the calls of User.paginate made by this request, in order
  usersModel,      \* const usersModel (line 48), once the store has answered
  result           \* how the request ended: nothing yet, a returned page, a throw

vars == <<pc, args, context, inputArg, paginateOptions, storeCalls, usersModel, result>>

----------------------------------------------------------------------------
(* JavaScript values *)

Undefined == [t |-> "undefined", v |-> <<>>]
Null == [t |-> "null", v |-> <<>>]
Str(s) == [t |-> "string", v |-> s]
Arr(l) == [t |-> "array", v |-> l]
Num(n) == [t |-> "number", v |-> n]
Obj(f) == [t |-> "object", v |-> f]

\* Mutant of Truthy: a presence test (x !== undefined && x !== null) in place of
\* JavaScript truthiness.
TruthyIfPresent(x) == x.t \notin {"undefined", "null"}

\* Mutant of Truthy: an empty array counts as absent (x && x.length).
TruthyNonEmpty(x) ==
  CASE x.t = "undefined" -> FALSE
    [] x.t = "null" -> FALSE
    [] x.t = "string" -> x.v # <<>>
    [] x.t = "number" -> x.v # 0
    [] x.t = "array" -> x.v # <<>>
    [] OTHER -> TRUE

\* if (x): JavaScript truthiness. "" and 0 are falsy, every array and object
\* (the empty array included) is truthy.
Truthy(x) ==
  CASE x.t = "undefined" -> FALSE
    [] x.t = "null" -> FALSE
    [] x.t = "string" -> x.v # <<>>
    [] x.t = "number" -> x.v # 0
    [] OTHER -> TRUE

\* {} : the object with no own keys.
EmptyObject == [k \in {} |-> Undefined]

\* { ...obj, key: val } : a copy of obj in which key holds val; a value obj
\* already had under key is replaced.
Spread(obj, key, val) ==
  [k \in DOMAIN obj \cup {key} |-> IF k = key THEN val ELSE obj[k]]

\* { ...a, ...b } : the own keys of b override those of a.
SpreadAll(a, b) ==
  [k \in DOMAIN a \cup DOMAIN b |-> IF k \in DOMAIN b THEN b[k] ELSE a[k]]

----------------------------------------------------------------------------
(* getInputArg (lines 102-395) *)

\* The if-statements of getInputArg in source order: the key of `where` each
\* one tests, the key of inputArg it writes and the shape of the value.
Rules == <<
  [key |-> "id",                          field |-> "_id",                    op |-> "eq"],
  [key |-> "id_not",                      field |-> "_id",                    op |-> "$ne"],
  [key |-> "id_in",                       field |-> "_id",                    op |-> "$in"],
  [key |-> "id_not_in",                   field |-> "_id",                    op |-> "$nin"],
  [key |-> "firstName",                   field |-> "firstName",              op |-> "eq"],
  [key |-> "firstName_not",               field |-> "firstName",              op |-> "$ne"],
  [key |-> "firstName_in",                field |-> "firstName",              op |-> "$in"],
  [key |-> "firstName_not_in",            field |-> "firstName",              op |-> "$nin"],
  [key |-> "firstName_contains",          field |-> "firstName",              op |-> "$regex"],
  [key |-> "firstName_starts_with",       field |-> "firstName",              op |-> "RegExp"],
  [key |-> "lastName",                    field |-> "lastName",               op |-> "eq"],
  [key |-> "lastName_not",                field |-> "lastName",               op |-> "$ne"],
  [key |-> "lastName_in",                 field |-> "lastName",               op |-> "$in"],
  [key |-> "lastName_not_in",             field |-> "lastName",               op |-> "$nin"],
  [key |-> "lastName_contains",           field |-> "lastName",               op |-> "$regex"],
  [key |-> "lastName_starts_with",        field |-> "lastName",               op |-> "RegExp"],
  [key |-> "email",                       field |-> "email",                  op |-> "eq"],
  [key |-> "email_not",                   field |-> "email",                  op |-> "$ne"],
  [key |-> "email_in",                    field |-> "email",                  op |-> "$in"],
  [key |-> "email_not_in",                field |-> "email",                  op |-> "$nin"],
  [key |-> "email_contains",              field |-> "email",                  op |-> "$regex"],
  [key |-> "email_starts_with",           field |-> "email",                  op |-> "RegExp"],
  [key |-> "appLanguageCode",             field |-> "appLanguageCode",        op |-> "eq"],
  [key |-> "appLanguageCode_not",         field |-> "appLanguageCode",        op |-> "$ne"],
  [key |-> "appLanguageCode_in",          field |-> "appLanguageCode",        op |-> "$in"],
  [key |-> "appLanguageCode_not_in",      field |-> "appLanguageCode",        op |-> "$nin"],
  [key |-> "appLanguageCode_contains",    field |-> "appLanguageCode",        op |-> "$regex"],
  [key |-> "appLanguageCode_starts_with", field |-> "appLanguageCode",        op |-> "RegExp"],
  [key |-> "admin_for",                   field |-> "adminFor",               op |-> "{_id}"],
  [key |-> "event_title_contains",        field |-> "registeredEvents.title", op |-> "$regex"]
>>

WhereKeys == {Rules[i].key : i \in 1..Len(Rules)}

\* new RegExp("^" + term): the source of the pattern, with no flags.
RegExpSource(term) == <<"^">> \o term

\* The value an if-statement writes under its key:
\*   where.k | {$ne: where.k} | {$in: where.k} | {$nin: where.k}
\*   | {$regex: where.k, $options: "i"} | new RegExp("^" + where.k) | {_id: where.k}
FieldValue(op, val) ==
  CASE op = "eq" -> val
    [] op = "$ne" -> [t |-> "$ne", v |-> val.v]
    [] op = "$in" -> [t |-> "$in", v |-> val.v]
    [] op = "$nin" -> [t |-> "$nin", v |-> val.v]
    [] op = "$regex" -> [t |-> "$regex/i", v |-> val.v]
    [] op = "RegExp" -> [t |-> "RegExp", v |-> RegExpSource(val.v)]
    [] op = "{_id}" -> [t |-> "{_id}", v |-> val.v]

\* Mutant of ApplyRule: admin_for is written under joinedOrganizations.
ApplyRuleAdminAsJoined(acc, w, r) ==
  IF Truthy(w[r.key])
    THEN Spread(acc, IF r.key = "admin_for" THEN "joinedOrganizations" ELSE r.field,
                FieldValue(r.op, w[r.key]))
    ELSE acc

\* One if-statement: if (where.k) { inputArg = { ...inputArg, field: value } }
ApplyRule(acc, w, r) ==
  IF Truthy(w[r.key]) THEN Spread(acc, r.field, FieldValue(r.op, w[r.key])) ELSE acc

RECURSIVE ApplyRules(_, _)
\* The first n if-statements, run in order on let inputArg = {}.
ApplyRules(w, n) ==
  IF n = 0 THEN EmptyObject ELSE ApplyRule(ApplyRules(w, n - 1), w, Rules[n])

getInputArg(where) ==
  IF Truthy(where) THEN ApplyRules(where.v, Len(Rules)) ELSE EmptyObject

\* The first argument of User.paginate (lines 49-54):
\* { joinedOrganizations: { _id: args.orgId }, ...inputArg }
StoreFilter(orgId, arg) ==
  SpreadAll([joinedOrganizations |-> [t |-> "{_id}", v |-> orgId]], arg)

----------------------------------------------------------------------------
(* The store: the User collection and User.paginate. Its code is not part   *)
(* of the source file; it is modelled from the specification (sections 4.2   *)
(* and 9) and from the query operators the resolver hands to it.            *)

Lower(c) == CASE c = "J" -> "j" [] c = "O" -> "o" [] c = "A" -> "a" [] OTHER -> c

\* One pattern character against one character: "." matches any character,
\* every other character of the model's alphabet matches itself.
CharMatch(p, c, ignoreCase) ==
  \/ p = "."
  \/ IF ignoreCase THEN Lower(p) = Lower(c) ELSE p = c

\* The pattern matches s from position i on.
MatchAt(pat, s, i, ignoreCase) ==
  /\ i + Len(pat) - 1 <= Len(s)
  /\ \A k \in 1..Len(pat) : CharMatch(pat[k], s[i + k - 1], ignoreCase)

\* A regular-expression search of s: a leading "^" anchors the match at the
\* start of s, without it the match may start anywhere.
RegexSearch(source, s, ignoreCase) ==
  IF source # <<>> /\ Head(source) = "^"
    THEN MatchAt(Tail(source), s, 1, ignoreCase)
    ELSE \E i \in 1..(Len(s) + 1) : MatchAt(source, s, i, ignoreCase)

\* A scalar field's value against the constraint the filter holds for it.
MatchField(p, value) ==
  CASE p.t = "string" -> value = p.v
    [] p.t = "$ne" -> value # p.v
    [] p.t = "$in" -> \E i \in 1..Len(p.v) : p.v[i] = value
    [] p.t = "$nin" -> \A i \in 1..Len(p.v) : p.v[i] # value
    [] p.t = "$regex/i" -> RegexSearch(p.v, value, TRUE)
    [] p.t = "RegExp" -> RegexSearch(p.v, value, FALSE)
    [] OTHER -> FALSE

\* One key of the filter against a stored user.
MatchKey(k, p, u) ==
  CASE k = "joinedOrganizations" -> p.t = "{_id}" /\ p.v \in u.joinedOrganizations
    [] k = "adminFor" -> p.t = "{_id}" /\ p.v \in u.adminFor
    [] k = "registeredEvents.title" -> \E title \in u.registeredEvents : MatchField(p, title)
    [] OTHER -> MatchField(p, u[k])

\* A filter is the conjunction of its keys.
Matches(filter, u) == \A k \in DOMAIN filter : MatchKey(k, filter[k], u)

OrgIds == {<<"1">>, <<"2">>}

\* The User collection, listed in the order the sort description gives.
DB == <<
  [_id |-> <<"1">>, firstName |-> <<"J", "o">>, lastName |-> <<"j">>, email |-> <<"j", "o">>,
   appLanguageCode |-> <<"j">>, joinedOrganizations |-> {<<"1">>}, adminFor |-> {<<"1">>},
   registeredEvents |-> {<<"J", "o">>}, image |-> Str(<<"/", "1">>), password |-> Str(<<"p">>)],
  [_id |-> <<"2">>, firstName |-> <<"a", "J">>, lastName |-> <<"J">>, email |-> <<"J">>,
   appLanguageCode |-> <<"J">>, joinedOrganizations |-> {<<"1">>, <<"2">>}, adminFor |-> {},
   registeredEvents |-> {}, image |-> Null, password |-> Str(<<"p">>)],
  [_id |-> <<"j">>, firstName |-> <<"j", "o">>, lastName |-> <<"o">>, email |-> <<"o">>,
   appLanguageCode |-> <<"o">>, joinedOrganizations |-> {<<"1">>, <<"2">>}, adminFor |-> {<<"2">>},
   registeredEvents |-> {<<"o">>, <<"a", "J">>}, image |-> Str(<<>>), password |-> Str(<<"q">>)],
  [_id |-> <<"J">>, firstName |-> <<"j">>, lastName |-> <<"J", "o">>, email |-> <<"a", "J">>,
   appLanguageCode |-> <<"a", "J">>, joinedOrganizations |-> {<<"2">>}, adminFor |-> {<<"j">>},
   registeredEvents |-> {<<"j">>}, image |-> Str(<<"/", "J">>), password |-> Str(<<"q">>)],
  [_id |-> <<"o">>, firstName |-> <<"o">>, lastName |-> <<"a", "J">>, email |-> <<"j">>,
   appLanguageCode |-> <<"j", "o">>, joinedOrganizations |-> {<<"1">>}, adminFor |-> {<<"J">>},
   registeredEvents |-> {<<"j", "o">>}, image |-> Undefined, password |-> Str(<<"p">>)]
>>

Users == {DB[i] : i \in 1..Len(DB)}

\* The records of the collection matching the filter, in sorted order.
Find(filter) == SelectSeq(DB, LAMBDA u : Matches(filter, u))

\* select: ["-password"]: the record without its password.
Project(u, honoured) == IF honoured THEN [u EXCEPT !.password = Undefined] ELSE u

\* lean: true gives the plain record, otherwise a document wrapping it in _doc.
Shape(u, lean) == IF lean THEN u ELSE [_doc |-> u]

Min(a, b) == IF a < b THEN a ELSE b

CeilDiv(a, b) == (a + b - 1) \div b

\* User.paginate(filter, options): the page of records and the page metadata.
\* `honoured` is whether the store applied the password exclusion.
Paginate(filter, options, honoured) ==
  LET matching == Find(filter)
      total == Len(matching)
      lean == "lean" \in DOMAIN options /\ options.lean
      shaped(s) == [i \in 1..Len(s) |-> Shape(Project(s[i], honoured), lean)]
  IN IF options.pagination
       THEN LET limit == options.limit.v
                page == IF options.page.t = "number" THEN options.page.v ELSE 1
                pages == CeilDiv(total, limit)
                docs == SubSeq(matching, (page - 1) * limit + 1, Min(page * limit, total))
            IN [docs |-> shaped(docs),
                totalDocs |-> Num(total),
                totalPages |-> Num(pages),
                page |-> Num(page),
                hasNextPage |-> page < pages,
                hasPrevPage |-> page > 1,
                nextPage |-> IF page < pages THEN Num(page + 1) ELSE Null,
                prevPage |-> IF page > 1 THEN Num(page - 1) ELSE Null]
       ELSE [docs |-> shaped(matching),
             totalDocs |-> Num(total),
             totalPages |-> Num(1),
             page |-> Null,
             hasNextPage |-> FALSE,
             hasPrevPage |-> FALSE,
             nextPage |-> Null,
             prevPage |-> Null]

----------------------------------------------------------------------------
(* Inputs *)

MaxOps == 2     \* operators set in one filter (specification SpecBuild)
MaxFirst == 2   \* largest page size
MaxSkip == 2    \* largest page number

EmptyWhere == [k \in WhereKeys |-> Undefined]

ScalarVals == {Str(<<>>), Str(<<"j">>), Str(<<"J">>)}
PatternVals == ScalarVals \cup {Str(<<".">>)}
ListVals == {Arr(<<>>), Arr(<< <<"j">> >>), Arr(<< <<"j">>, <<"J">> >>)}

OpOf(key) == (CHOOSE i \in 1..Len(Rules) : Rules[i].key = key)

ValuesFor(key) ==
  LET op == Rules[OpOf(key)].op
  IN IF op \in {"$in", "$nin"} THEN ListVals
     ELSE IF op \in {"$regex", "RegExp"} THEN PatternVals
     ELSE ScalarVals

\* The filters with at most one operator set.
SingleOperatorFilters ==
  {EmptyWhere} \cup {[EmptyWhere EXCEPT ![k] = val] : <<k, val>> \in
                       UNION {{<<key, x>> : x \in ValuesFor(key)} : key \in WhereKeys}}

Wheres == {Undefined, Null} \cup {Obj(f) : f \in SingleOperatorFilters}
Firsts == {Undefined, Null} \cup {Num(n) : n \in 0..MaxFirst}
Skips == {Undefined, Null} \cup {Num(n) : n \in 1..MaxSkip}
ApiRootUrls == {Str(<<"h">>), Str(<<"h", "/">>)}

NoArgs == [where |-> Undefined, first |-> Undefined, skip |-> Undefined, orgId |-> <<>>]
NoContext == [apiRootUrl |-> Undefined]
NoResult == [kind |-> "none", value |-> Undefined]

----------------------------------------------------------------------------
(* organizationsMemberConnection (lines 21-100) *)

\* Mutant of paginateOptionsOf: the unpaged branch asks for one page of one record.
paginateOptionsAlwaysPaged(a) ==
  IF Truthy(a.first)
    THEN [lean |-> TRUE, sort |-> "sort", pagination |-> TRUE, page |-> a.skip, limit |-> a.first]
    ELSE [lean |-> TRUE, sort |-> "sort", pagination |-> TRUE, page |-> Num(1), limit |-> Num(1)]

\* lines 29-46, once the null check has passed. `sort` is the opaque ordering
\* description getSort returns.
paginateOptionsOf(a) ==
  IF Truthy(a.first)
    THEN [lean |-> TRUE, sort |-> "sort", pagination |-> TRUE, page |-> a.skip, limit |-> a.first]
    ELSE [sort |-> "sort", pagination |-> FALSE]

\* lines 29-32: if (args.first) { if (args.skip === null) throw ... }
MissingSkipNull(a) == Truthy(a.first) /\ a.skip = Null

\* lines 64-67: if (paginateOptions.pagination) { if (args.skip === undefined) throw ... }
MissingSkipUndefined(options, a) == options.pagination /\ a.skip = Undefined

\* Mutant of Image: the root is prepended to whatever the record holds that is not null.
ImageNonNull(image, root) ==
  IF image.t \notin {"null", "undefined"} THEN Str(root.v \o image.v) ELSE Null

\* user.image ? `${context.apiRootUrl}${user.image}` : null
Image(image, root) == IF Truthy(image) THEN Str(root.v \o image.v) ELSE Null

\* Mutant of PagedUser: the password the store returned is kept.
PagedUserKeepsPassword(user, root) == [user EXCEPT !.image = Image(user.image, root)]

\* lines 69-75: { ...user, image: ..., password: null } on a lean record.
PagedUser(user, root) ==
  [user EXCEPT !.image = Image(user.image, root), !.password = Null]

\* lines 77-83: { ...user._doc, image: ..., password: null } on a document;
\* user.image reads the document's image.
UnpagedUser(user, root) ==
  [user._doc EXCEPT !.image = Image(user._doc.image, root), !.password = Null]

\* lines 86-99: the response.
Response(model, users) ==
  [pageInfo |-> [hasNextPage |-> model.hasNextPage,
                 hasPreviousPage |-> model.hasPrevPage,
                 totalPages |-> model.totalPages,
                 nextPageNo |-> model.nextPage,
                 prevPageNo |-> model.prevPage,
                 currPageNo |-> model.page],
   edges |-> users,
   aggregate |-> [count |-> model.totalDocs]]

Init ==
  /\ pc = "idle"
  /\ args = NoArgs
  /\ context = NoContext
  /\ inputArg = EmptyObject
  /\ paginateOptions = EmptyObject
  /\ storeCalls = <<>>
  /\ usersModel = Undefined
  /\ result = NoResult

\* The resolver is called with args and context.
Call ==
  /\ pc = "idle"
  /\ \E w \in Wheres, f \in Firsts, s \in Skips, o \in OrgIds, root \in ApiRootUrls :
       /\ args' = [where |-> w, first |-> f, skip |-> s, orgId |-> o]
       /\ context' = [apiRootUrl |-> root]
  /\ pc' = "called"
  /\ UNCHANGED <<inputArg, paginateOptions, storeCalls, usersModel, result>>

\* lines 23-32: the filter is built, then a page size with skip === null throws.
ThrowMissingSkip ==
  /\ pc = "called"
  /\ MissingSkipNull(args)
  /\ inputArg' = getInputArg(args.where)
  /\ result' = [kind |-> "throw",
                value |-> [t |-> "string",
                           msg |-> "Missing Skip parameter. Set it to either 0 or some other value"]]
  /\ pc' = "done"
  /\ UNCHANGED <<args, context, paginateOptions, storeCalls, usersModel>>

\* lines 23-60 up to the await: the filter and the options are built and
\* User.paginate is called.
InvokeStore ==
  /\ pc = "called"
  /\ ~MissingSkipNull(args)
  /\ inputArg' = getInputArg(args.where)
  /\ paginateOptions' = paginateOptionsOf(args)
  /\ storeCalls' = Append(storeCalls,
       [filter |-> StoreFilter(args.orgId, inputArg'),
        options |-> SpreadAll(paginateOptions',
                              [populate |-> "registeredEvents", select |-> "-password"])])
  /\ pc' = "awaiting"
  /\ UNCHANGED <<args, context, usersModel, result>>

\* The store answers the pending call.
StoreResolves ==
  /\ pc = "awaiting"
  /\ \E honoured \in BOOLEAN :
       usersModel' = Paginate(storeCalls[Len(storeCalls)].filter,
                              storeCalls[Len(storeCalls)].options, honoured)
  /\ pc' = "resumed"
  /\ UNCHANGED <<args, context, inputArg, paginateOptions, storeCalls, result>>

\* The store fails the pending call; the await rethrows.
StoreRejects ==
  /\ pc = "awaiting"
  /\ result' = [kind |-> "throw", value |-> [t |-> "StoreError", msg |-> "store"]]
  /\ pc' = "done"
  /\ UNCHANGED <<args, context, inputArg, paginateOptions, storeCalls, usersModel>>

\* lines 64-67: paged with skip === undefined throws after the store answered.
ThrowSkipUndefined ==
  /\ pc = "resumed"
  /\ MissingSkipUndefined(paginateOptions, args)
  /\ result' = [kind |-> "throw", value |-> [t |-> "Error", msg |-> "Skip parameter is missing"]]
  /\ pc' = "done"
  /\ UNCHANGED <<args, context, inputArg, paginateOptions, storeCalls, usersModel>>

\* lines 62-99: the records are reshaped and the response is returned.
Return ==
  /\ pc = "resumed"
  /\ ~MissingSkipUndefined(paginateOptions, args)
  /\ LET docs == usersModel.docs
         users == IF paginateOptions.pagination
                    THEN [i \in 1..Len(docs) |-> PagedUser(docs[i], context.apiRootUrl)]
                    ELSE [i \in 1..Len(docs) |-> UnpagedUser(docs[i], context.apiRootUrl)]
     IN result' = [kind |-> "return", value |-> Response(usersModel, users)]
  /\ pc' = "done"
  /\ UNCHANGED <<args, context, inputArg, paginateOptions, storeCalls, usersModel>>

\* The request is over; nothing of it is kept for the next one.
Finish ==
  /\ pc = "done"
  /\ pc' = "idle"
  /\ args' = NoArgs
  /\ context' = NoContext
  /\ inputArg' = EmptyObject
  /\ paginateOptions' = EmptyObject
  /\ storeCalls' = <<>>
  /\ usersModel' = Undefined
  /\ result' = NoResult

Next ==
  \/ Call
  \/ ThrowMissingSkip
  \/ InvokeStore
  \/ StoreResolves
  \/ StoreRejects
  \/ ThrowSkipUndefined
  \/ Return
  \/ Finish

Spec == Init /\ [][Next]_vars

----------------------------------------------------------------------------
(* The filter builder on its own: a request without page size whose filter  *)
(* is composed one operator at a time, then taken up to the store call.      *)

NumSet(w) == Cardinality({k \in WhereKeys : w[k] # Undefined})

InitBuild ==
  /\ pc = "called"
  /\ \E w \in {Undefined, Null, Obj(EmptyWhere)}, o \in OrgIds :
       args = [where |-> w, first |-> Undefined, skip |-> Undefined, orgId |-> o]
  /\ context = [apiRootUrl |-> Str(<<"h">>)]
  /\ inputArg = EmptyObject
  /\ paginateOptions = EmptyObject
  /\ storeCalls = <<>>
  /\ usersModel = Undefined
  /\ result = NoResult

\* One more operator is set in the filter of the request.
SetOperator ==
  /\ pc = "called"
  /\ args.where.t = "object"
  /\ NumSet(args.where.v) < MaxOps
  /\ \E k \in WhereKeys :
       /\ args.where.v[k] = Undefined
       /\ \E val \in ValuesFor(k) :
            args' = [args EXCEPT !.where = Obj([args.where.v EXCEPT ![k] = val])]
  /\ UNCHANGED <<pc, context, inputArg, paginateOptions, storeCalls, usersModel, result>>

NextBuild ==
  \/ SetOperator
  \/ InvokeStore

SpecBuild == InitBuild /\ [][NextBuild]_vars

----------------------------------------------------------------------------
(* Properties *)

RuleIdx == 1..Len(Rules)
HasWhere == args.where.t = "object"
W == args.where.v
Built == pc = "awaiting" /\ Len(storeCalls) = 1
SentFilter == storeCalls[1].filter
SentOptions == storeCalls[1].options

\* A later if-statement of getInputArg writes the same key of inputArg.
LaterSameField(w, i) ==
  \E j \in RuleIdx : j > i /\ Rules[j].field = Rules[i].field /\ Truthy(w[Rules[j].key])

PageSizeSupplied == args.first.t = "number" /\ args.first.v >= 1
NoPageSize == args.first.t \in {"undefined", "null"}
SkipMissing == args.skip.t \in {"undefined", "null"}
ClientInputError == result.kind = "throw" /\ result.value.t \in {"string", "Error"}
Returned == pc = "done" /\ result.kind = "return"
Edges == result.value.edges

\* The record the store returned at position i, whatever its wrapping.
Raw(i) == IF paginateOptions.pagination THEN usersModel.docs[i] ELSE usersModel.docs[i]._doc

\* C1: every operator supplied in the filter constrains the result: a record
\* the filter handed to the store matches satisfies the constraint of each
\* supplied operator, also when several operators name the same field.
C1_EveryOperatorConstrains ==
  (Built /\ HasWhere) =>
    \A i \in RuleIdx :
      Truthy(W[Rules[i].key]) =>
        \A u \in Users :
          Matches(SentFilter, u) =>
            MatchKey(Rules[i].field, FieldValue(Rules[i].op, W[Rules[i].key]), u)

\* C2: a request with a page size and no page number (null or undefined) ends
\* in the missing-page-number error, never in a page or in another outcome.
C2_MissingSkipEndsInClientError ==
  (pc = "done" /\ PageSizeSupplied /\ SkipMissing) => ClientInputError

\* C3: when a request ends in the missing-page-number error, the store has
\* not been called by it.
C3_NoStoreCallBeforeMissingSkipError ==
  (pc = "done" /\ PageSizeSupplied /\ SkipMissing /\ ClientInputError) => storeCalls = <<>>

\* Case-insensitive prefix: v begins with term, letter case ignored.
StartsWithIgnoreCase(term, v) ==
  /\ Len(term) <= Len(v)
  /\ \A i \in 1..Len(term) : Lower(term[i]) = Lower(v[i])

\* The term holds letters only, no character a pattern reads specially.
Literal(term) == \A i \in 1..Len(term) : term[i] # "."

\* C4: the constraint built for <field>_starts_with = T matches a stored value
\* exactly when the value begins with T, letter case ignored. Stated for the
\* terms made of letters, where pattern syntax plays no part.
C4_StartsWithIsCaseInsensitivePrefix ==
  (Built /\ HasWhere) =>
    \A i \in RuleIdx :
      (Rules[i].op = "RegExp" /\ Truthy(W[Rules[i].key]) /\ Literal(W[Rules[i].key].v)) =>
        \A u \in Users :
          MatchKey(Rules[i].field, SentFilter[Rules[i].field], u)
            <=> StartsWithIgnoreCase(W[Rules[i].key].v, u[Rules[i].field])

\* C5: the filter handed to the store always holds the membership constraint
\* for args.orgId, whatever the filter; with no filter, or no field set in it,
\* the filter is that constraint alone.
C5_BaseConstraintAlwaysPresent ==
  Built =>
    /\ "joinedOrganizations" \in DOMAIN SentFilter
    /\ SentFilter["joinedOrganizations"] = [t |-> "{_id}", v |-> args.orgId]
    /\ (~HasWhere \/ W = EmptyWhere) => DOMAIN SentFilter = {"joinedOrganizations"}

C5_Witness ==
  /\ Built
  /\ HasWhere
  /\ Truthy(W["admin_for"])
  /\ Truthy(W["firstName_contains"])
  /\ DOMAIN SentFilter = {"joinedOrganizations", "adminFor", "firstName"}

\* C6: in every returned response, paged or not, whatever password the store
\* returned, every edge has password null.
C6_PasswordAlwaysNull ==
  Returned => \A i \in 1..Len(Edges) : Edges[i].password = Null

C6_Witness ==
  /\ Returned
  /\ paginateOptions.pagination
  /\ \E i \in 1..Len(Edges) : Raw(i).password.t = "string" /\ Edges[i].password = Null

\* C7 as stated: the image of an edge is apiRootUrl + raw image when the raw
\* image is not null, and null otherwise.
C7_ImageRewrittenWhenNonNull ==
  Returned =>
    \A i \in 1..Len(Edges) :
      Edges[i].image = IF Raw(i).image.t \notin {"null", "undefined"}
                         THEN Str(context.apiRootUrl.v \o Raw(i).image.v)
                         ELSE Null

\* C7 amended: the image of an edge is apiRootUrl + raw image when the raw
\* image is a non-empty string, and null when it is null, missing or the
\* empty string; the value depends on the raw record and the root only, so
\* both modes give the same one.
C7_ImageRewrittenWhenNonEmpty ==
  Returned =>
    \A i \in 1..Len(Edges) :
      Edges[i].image = IF Raw(i).image.t = "string" /\ Raw(i).image.v # <<>>
                         THEN Str(context.apiRootUrl.v \o Raw(i).image.v)
                         ELSE Null

C7_Witness ==
  /\ Returned
  /\ ~paginateOptions.pagination
  /\ \E i, j, k \in 1..Len(Edges) :
       /\ Raw(i).image = Str(<<"/", "1">>)
       /\ Edges[i].image = Str(context.apiRootUrl.v \o <<"/", "1">>)
       /\ Raw(j).image = Str(<<>>) /\ Edges[j].image = Null
       /\ Raw(k).image = Null /\ Edges[k].image = Null

\* The members of the organization, in stored order.
Members(orgId) == SelectSeq(DB, LAMBDA u : orgId \in u.joinedOrganizations)

C9_UnpagedReturnsEverything ==
  NoPageSize =>
    /\ pc \in {"awaiting", "resumed", "done"} =>
         /\ Len(storeCalls) = 1
         /\ SentOptions.pagination = FALSE
         /\ DOMAIN SentOptions \cap {"page", "limit", "offset"} = {}
    /\ (pc = "done" /\ result.kind = "throw") => result.value.t = "StoreError"
    /\ Returned =>
         LET matching == Find(StoreFilter(args.orgId, getInputArg(args.where)))
         IN /\ Len(Edges) = Len(matching)
            /\ \A i \in 1..Len(matching) : Edges[i]._id = matching[i]._id
            /\ result.value.pageInfo.hasNextPage = FALSE
            /\ result.value.pageInfo.hasPreviousPage = FALSE
            /\ result.value.pageInfo.nextPageNo = Null
            /\ result.value.aggregate.count = Num(Len(matching))

C9_Witness ==
  /\ Returned
  /\ NoPageSize
  /\ HasWhere
  /\ Truthy(W["firstName_contains"])
  /\ Len(Edges) >= 2
  /\ Len(Edges) < Len(Members(args.orgId))

====
